---- MODULE Spec2Model ----
(***************************************************************************)
(* Smart closet: the stepper-motor rotation controller                     *)
(* (hardware/motor_controller.py), the SQLite clothing repository          *)
(* (database/db.py) and the confirmation endpoint (backend/app.py).        *)
(***************************************************************************)
EXTENDS Integers, Sequences, FiniteSets, TLC

\* ------------------------------------------------------------------ bounds
\* Largest carousel (slots) a controller is constructed with.
MaxSlots == 4
\* Largest steps_per_revolution a controller is constructed with.
MaxStepsPerRev == 9
\* Carousel size and steps_per_revolution of the application instances
\* whose store is explored.
StoreSlots == 2
StoreStepsPerRev == 4
\* Most rotate_to_slot calls of a sequence whose pulses are added up.
MaxCalls == 3
\* Last instant of the wall clock.
MaxClock == 2
\* Most rows usage_history grows to.
MaxHistory == 2
\* Request threads of the server.
MaxThreads == 2
\* Carousel size of the application instances whose recommendations are
\* explored.
RecommendSlots == 3
\* Most times a garment was worn when it is scored.
MaxUsage == 10

\* ----------------------------------------------------------------- values
\* SQL NULL of a timestamp column; real timestamps are >= 1.
NULL == 0
\* Labels the classifier assigns to a segment: a top and a bottom.
Types == {"shirt", "pants"}

VARIABLES
    slots,                 \* controller.slots
    steps_per_revolution,  \* controller.steps_per_revolution
    real,                  \* TRUE: StepperMotorController, FALSE: the mock
    current_slot,          \* controller.current_slot
    enable_pin,            \* level of the A4988 ENABLE line ("HIGH" = disabled)
    clothing_items,        \* table clothing_items, in rowid order
    usage_history,         \* table usage_history, in rowid order
    clock,                 \* the wall clock read by _now()
    last,                  \* what the last finished call logged and returned
    pc,                    \* request threads: the statement each stands at
    loc                    \* request threads: local variables

vars == <<slots, steps_per_revolution, real, current_slot, enable_pin,
          clothing_items, usage_history, clock, last, pc, loc>>

motorVars == <<current_slot, enable_pin>>
configVars == <<slots, steps_per_revolution, real>>
dbVars == <<clothing_items, usage_history>>
threadVars == <<pc, loc>>

\* ------------------------------------------------- rotation controller
\* An off-by-one range check that lets target_slot = slots through.
ValidSlotInclusive(target_slot, n) == 0 <= target_slot /\ target_slot <= n

\* 0 <= target_slot < self.slots
ValidSlot(target_slot, n) == 0 <= target_slot /\ target_slot < n

\* steps_per_slot = self.steps_per_revolution // self.slots
StepsPerSlot(r, n) == r \div n

\* delta = (target_slot - self.current_slot) % self.slots
Delta(target_slot, cur, n) == (target_slot - cur) % n

\* A flipped comparison in the direction choice.
CounterClockwiseFlipped(delta, n) == 2 * delta < n

\* A direction choice that goes counter-clockwise at the exact half turn.
CounterClockwiseAtTie(delta, n) == 2 * delta >= n

\* delta > self.slots / 2  (true division: compared as 2 * delta > slots)
CounterClockwise(delta, n) == 2 * delta > n

\* A step count that takes a rotation to the slot already at the pickup
\* point for a whole turn.
StepCountFullTurn(delta, n, sps) ==
    IF delta = 0 THEN n * sps
    ELSE IF 2 * delta > n THEN (n - delta) * sps ELSE delta * sps

\* A counter-clockwise branch that turns by delta slots instead of by
\* slots - delta.
StepCountNoComplement(delta, n, sps) == delta * sps

\* steps of the chosen branch
StepCount(delta, n, sps) ==
    IF CounterClockwise(delta, n) THEN (n - delta) * sps ELSE delta * sps

\* Where a GPIO call of _perform_steps may raise: nowhere, before the ENABLE
\* line is driven LOW (the DIR write, _enable), at a STEP write, at _disable.
FaultPoints == {"none", "dir", "step", "disable"}

\* Pulses completed by _perform_steps(steps) when it raises at fault point f
\* after k whole pulses (k matters for "step" only).
PulsesEmitted(steps, f, k) ==
    CASE f = "dir" -> 0
      [] f = "step" -> k
      [] OTHER -> steps

\* ENABLE line after _perform_steps: _enable drives it LOW, _disable HIGH.
EnableAfter(before, f) ==
    CASE f = "dir" -> before
      [] f \in {"step", "disable"} -> "LOW"
      [] OTHER -> "HIGH"

\* current_slot assigned whether or not _perform_steps returned.
SlotAfterAlways(cur, target_slot, f) == target_slot

\* self.current_slot = target_slot runs only when _perform_steps returned.
SlotAfter(cur, target_slot, f) == IF f = "none" THEN target_slot ELSE cur

\* StepperMotorController.rotate_to_slot: the log record, the pulses emitted,
\* the exception raised ("none" when it returns) and the controller after.
RealRotate(cur, en, n, r, target_slot, f, k) ==
    IF ~ValidSlot(target_slot, n)
    THEN [raised |-> "ValueError", from |-> cur, target |-> target_slot,
          steps |-> 0, direction_cw |-> TRUE, pulses |-> 0,
          current_slot |-> cur, enable_pin |-> en]
    ELSE LET delta == Delta(target_slot, cur, n)
             steps == StepCount(delta, n, StepsPerSlot(r, n))
         IN [raised |-> IF f = "none" THEN "none" ELSE "RuntimeError",
             from |-> cur, target |-> target_slot,
             steps |-> steps,
             direction_cw |-> ~CounterClockwise(delta, n),
             pulses |-> PulsesEmitted(steps, f, k),
             current_slot |-> SlotAfter(cur, target_slot, f),
             enable_pin |-> EnableAfter(en, f)]

\* A mock that takes the target for its position before it checks the range.
MockRotateUnchecked(cur, en, n, r, target_slot) ==
    [raised |-> IF ValidSlot(target_slot, n) THEN "none" ELSE "ValueError",
     from |-> cur, target |-> target_slot, steps |-> 0, direction_cw |-> TRUE,
     pulses |-> 0, current_slot |-> target_slot, enable_pin |-> en]

\* A mock that always turns clockwise.
MockRotateClockwise(cur, en, n, r, target_slot) ==
    IF ~ValidSlot(target_slot, n)
    THEN [raised |-> "ValueError", from |-> cur, target |-> target_slot,
          steps |-> 0, direction_cw |-> TRUE, pulses |-> 0,
          current_slot |-> cur, enable_pin |-> en]
    ELSE [raised |-> "none", from |-> cur, target |-> target_slot,
          steps |-> Delta(target_slot, cur, n) * StepsPerSlot(r, n),
          direction_cw |-> TRUE, pulses |-> 0,
          current_slot |-> target_slot, enable_pin |-> en]

\* MockStepperMotorController.rotate_to_slot: logs the motion, touches no pin.
MockRotate(cur, en, n, r, target_slot) ==
    IF ~ValidSlot(target_slot, n)
    THEN [raised |-> "ValueError", from |-> cur, target |-> target_slot,
          steps |-> 0, direction_cw |-> TRUE, pulses |-> 0,
          current_slot |-> cur, enable_pin |-> en]
    ELSE LET delta == Delta(target_slot, cur, n)
             steps == StepCount(delta, n, StepsPerSlot(r, n))
         IN [raised |-> "none", from |-> cur, target |-> target_slot,
             steps |-> steps,
             direction_cw |-> ~CounterClockwise(delta, n),
             pulses |-> 0,
             current_slot |-> target_slot,
             enable_pin |-> en]

\* app.motor_controller.rotate_to_slot(target_slot)
Rotate(isReal, cur, en, n, r, target_slot, f, k) ==
    IF isReal THEN RealRotate(cur, en, n, r, target_slot, f, k)
    ELSE MockRotate(cur, en, n, r, target_slot)

\* The faults a call can meet, each with the whole pulses emitted before it:
\* a STEP write can fail at any of the steps pulses; the mock touches no pin
\* and a rejected target reaches no GPIO call.
Faults(isReal, cur, n, r, target_slot) ==
    IF isReal /\ ValidSlot(target_slot, n)
    THEN {<<"none", 0>>, <<"dir", 0>>, <<"disable", 0>>}
         \cup {<<"step", k>> :
                 k \in 0 .. StepCount(Delta(target_slot, cur, n), n,
                                      StepsPerSlot(r, n)) - 1}
    ELSE {<<"none", 0>>}

\* --------------------------------------------------- clothing repository
\* A row of clothing_items as INSERT creates it: usage_count DEFAULT 0,
\* color_hint and last_worn_ts NULL, id the next AUTOINCREMENT rowid.
NewRow(items, slot, clothing_type, now) ==
    [id |-> Len(items) + 1, slot |-> slot, type |-> clothing_type,
     color_hint |-> NULL, last_worn_ts |-> NULL, usage_count |-> 0,
     created_ts |-> now, updated_ts |-> now]

\* A lookup that compares the slot with the row id.
FetchBySlotById(items, slot) ==
    LET hit == {i \in DOMAIN items : items[i].id = slot}
    IN IF hit = {} THEN <<>>
       ELSE <<items[CHOOSE i \in hit : \A j \in hit : i <= j]>>

\* SELECT * FROM clothing_items WHERE slot = ?  followed by fetchone():
\* <<>> for None, else the first matching row of the rowid scan.
FetchBySlot(items, slot) ==
    LET hit == {i \in DOMAIN items : items[i].slot = slot}
    IN IF hit = {} THEN <<>>
       ELSE <<items[CHOOSE i \in hit : \A j \in hit : i <= j]>>

\* An update that rewrites the row the way a fresh INSERT would.
UpdateTypeResetting(items, slot, clothing_type, now) ==
    [i \in DOMAIN items |->
        IF items[i].slot = slot
        THEN [items[i] EXCEPT !.type = clothing_type, !.updated_ts = now,
                              !.usage_count = 0, !.last_worn_ts = NULL]
        ELSE items[i]]

\* An update without its WHERE clause.
UpdateTypeEveryRow(items, slot, clothing_type, now) ==
    [i \in DOMAIN items |->
        [items[i] EXCEPT !.type = clothing_type, !.updated_ts = now]]

\* UPDATE clothing_items SET type = ?, updated_ts = ? WHERE slot = ?
UpdateType(items, slot, clothing_type, now) ==
    [i \in DOMAIN items |->
        IF items[i].slot = slot
        THEN [items[i] EXCEPT !.type = clothing_type, !.updated_ts = now]
        ELSE items[i]]

\* INSERT INTO clothing_items (slot, type, created_ts, updated_ts)
InsertItem(items, slot, clothing_type, now) ==
    Append(items, NewRow(items, slot, clothing_type, now))

\* get_item: SELECT * FROM clothing_items WHERE id = ?; <<>> stands for the
\* ValueError raised when no row has the id.
GetItem(items, item_id) ==
    IF item_id \in DOMAIN items THEN <<items[item_id]>> ELSE <<>>

\* INSERT INTO usage_history (clothing_id, worn_ts); foreign keys are not
\* enforced (no PRAGMA foreign_keys), so any clothing_id is accepted.
InsertUsage(history, item_id, now) ==
    Append(history, [id |-> Len(history) + 1, clothing_id |-> item_id,
                     worn_ts |-> now])

\* An update that stamps the row and forgets the increment.
UpdateUsageNoCount(items, item_id, now) ==
    [i \in DOMAIN items |->
        IF items[i].id = item_id
        THEN [items[i] EXCEPT !.last_worn_ts = now, !.updated_ts = now]
        ELSE items[i]]

\* An update whose WHERE clause is missing: every row is stamped and counted.
UpdateUsageEveryRow(items, item_id, now) ==
    [i \in DOMAIN items |->
        [items[i] EXCEPT !.last_worn_ts = now,
                         !.usage_count = @ + 1,
                         !.updated_ts = now]]

\* UPDATE clothing_items SET last_worn_ts = ?, usage_count = usage_count + 1,
\* updated_ts = ? WHERE id = ?   (no row matches an unknown id)
UpdateUsage(items, item_id, now) ==
    [i \in DOMAIN items |->
        IF items[i].id = item_id
        THEN [items[i] EXCEPT !.last_worn_ts = now,
                              !.usage_count = @ + 1,
                              !.updated_ts = now]
        ELSE items[i]]

\* add_or_update_item run to its end: the tables after it, the row the
\* lookup fetched and the record returned.
AddOrUpdate(items, slot, clothing_type, now) ==
    LET row == FetchBySlot(items, slot)
        after == IF row # <<>> THEN UpdateType(items, slot, clothing_type, now)
                 ELSE InsertItem(items, slot, clothing_type, now)
        item_id == IF row # <<>> THEN row[1].id ELSE Len(after)
    IN [items |-> after, row |-> row, returned |-> GetItem(after, item_id)]

\* The columns of a fetched row that no update of its type may touch.
Kept(row) ==
    IF row = <<>> THEN <<>>
    ELSE <<[id |-> row[1].id, usage_count |-> row[1].usage_count,
            last_worn_ts |-> row[1].last_worn_ts]>>

\* log_usage run to its end: it raises nothing.
LogUsageResult(items, history, item_id, now) ==
    [items |-> UpdateUsage(items, item_id, now),
     history |-> InsertUsage(history, item_id, now),
     raised |-> "none"]

\* ------------------------------------------------------------ api_confirm
\* The log record of one rotate_to_slot call.
RotationLog(res) ==
    [raised |-> res.raised, from |-> res.from, target |-> res.target,
     pulses |-> res.pulses]

\* The state a confirmation starts its loop in.
ConfirmStart(cur, en, items, history) ==
    [current_slot |-> cur, enable_pin |-> en, items |-> items,
     history |-> history, raised |-> "none", rotations |-> <<>>,
     logged |-> <<>>, calls |-> <<>>]

\* The calls a pass of the loop body makes, in the order it makes them.
RotateCall(item) == [op |-> "rotate_to_slot", arg |-> item.slot]
LogUsageCall(item) == [op |-> "log_usage", arg |-> item.id]

\* A loop body that logs the usage before it rotates.
ConfirmItemLogFirst(st, res, item, now) ==
    [current_slot |-> res.current_slot,
     enable_pin |-> res.enable_pin,
     rotations |-> Append(st.rotations, RotationLog(res)),
     items |-> LogUsageResult(st.items, st.history, item.id, now).items,
     history |-> LogUsageResult(st.items, st.history, item.id, now).history,
     logged |-> Append(st.logged, item.id),
     calls |-> st.calls \o <<LogUsageCall(item), RotateCall(item)>>,
     raised |-> res.raised]

\* A loop body that logs the usage whether or not the rotation returned.
ConfirmItemLogAnyway(st, res, item, now) ==
    [current_slot |-> res.current_slot,
     enable_pin |-> res.enable_pin,
     rotations |-> Append(st.rotations, RotationLog(res)),
     items |-> LogUsageResult(st.items, st.history, item.id, now).items,
     history |-> LogUsageResult(st.items, st.history, item.id, now).history,
     logged |-> Append(st.logged, item.id),
     calls |-> st.calls \o <<RotateCall(item), LogUsageCall(item)>>,
     raised |-> res.raised]

\* One pass of the loop body of api_confirm, res being what
\* rotate_to_slot(int(item["slot"])) did: when it returned,
\* log_usage(item_id=item["id"]) follows; when it raised, the loop is left.
ConfirmItem(st, res, item, now) ==
    [current_slot |-> res.current_slot,
     enable_pin |-> res.enable_pin,
     rotations |-> Append(st.rotations, RotationLog(res)),
     items |-> IF res.raised # "none" THEN st.items
               ELSE LogUsageResult(st.items, st.history, item.id, now).items,
     history |-> IF res.raised # "none" THEN st.history
                 ELSE LogUsageResult(st.items, st.history, item.id, now).history,
     logged |-> IF res.raised # "none" THEN st.logged
                ELSE Append(st.logged, item.id),
     calls |-> IF res.raised # "none" THEN Append(st.calls, RotateCall(item))
               ELSE st.calls \o <<RotateCall(item), LogUsageCall(item)>>,
     raised |-> IF res.raised # "none" THEN res.raised
                ELSE LogUsageResult(st.items, st.history, item.id, now).raised]

\* return jsonify({"status": "ok"}) unless the loop raised: then the except
\* clause answers {"status": "error"}, 500.
ConfirmStatus(raised) == IF raised = "none" THEN "ok" ELSE "error"

\* The items a client sends: a record as the inventory lists it (its slot and
\* id), or one carrying an id no row has, with any slot up to slots itself.
ClientItems(n, items) ==
    {[slot |-> items[i].slot, id |-> items[i].id] : i \in DOMAIN items}
    \cup {[slot |-> sl, id |-> Len(items) + 1] : sl \in 0 .. n}

NoCall == [op |-> "none"]

\* ---------------------------------------------------- binary64 arithmetic
\* Scores are Python floats. A float is held here exactly, as the integer
\* l2 * 2^40 + l1 * 2^20 + l0 counting units of 2^-56, with a sign; every
\* value _score_item meets is a whole number of such units below 2^60.
Limb == 2 ^ 20

Float(neg, l2, l1, l0) == [neg |-> neg, l2 |-> l2, l1 |-> l1, l0 |-> l0]

\* The literals of recommendation.py, as the floats Python reads them as.
F_0_0 == Float(FALSE, 0, 0, 0)
F_1_0 == Float(FALSE, 65536, 0, 0)
F_0_5 == Float(FALSE, 32768, 0, 0)
F_0_3 == Float(FALSE, 19660, 838860, 838860)
F_0_2 == Float(FALSE, 13107, 209715, 209716)
F_minus_0_1 == Float(TRUE, 6553, 629145, 629146)
F_minus_0_5 == Float(TRUE, 32768, 0, 0)
F_minus_0_3 == Float(TRUE, 19660, 838860, 838860)

\* Units between neighbouring floats of the binade the magnitude lies in
\* (53 significant bits): 1 below 2^53 units, doubling with each binade.
Quantum(l2) ==
    CASE l2 < 8192 -> 1
      [] l2 < 16384 -> 2
      [] l2 < 32768 -> 4
      [] l2 < 65536 -> 8
      [] l2 < 131072 -> 16
      [] l2 < 262144 -> 32
      [] l2 < 524288 -> 64
      [] OTHER -> 128

\* Carries of the low limbs moved up.
Carry(l2, l1, l0) ==
    [l2 |-> l2 + (l1 + l0 \div Limb) \div Limb,
     l1 |-> (l1 + l0 \div Limb) % Limb,
     l0 |-> l0 % Limb]

\* Round to nearest, ties to even: the magnitude (l2, l1, l0) plus num / den
\* of a unit, num < den, brought to a multiple of its quantum.
RoundNearestEven(l2, l1, l0, num, den) ==
    LET q == Quantum(l2)
        rem == l0 % q
        low == l0 - rem
        twice == 2 * (den * rem + num)
        up == \/ twice > den * q
              \/ twice = den * q /\ (low \div q) % 2 = 1
    IN Carry(l2, l1, IF up THEN low + q ELSE low)

\* a + b of two floats, a >= 0 and a >= -b: the exact sum, rounded.
FloatAdd(a, b) ==
    LET exact == IF b.neg
                 THEN Carry(a.l2 - b.l2 - 2, a.l1 - b.l1 + 2 * Limb - 1,
                            a.l0 - b.l0 + Limb)
                 ELSE Carry(a.l2 + b.l2, a.l1 + b.l1, a.l0 + b.l0)
        r == RoundNearestEven(exact.l2, exact.l1, exact.l0, 0, 1)
    IN Float(FALSE, r.l2, r.l1, r.l0)

\* a > b of two floats that are not negative.
FloatGreater(a, b) ==
    \/ a.l2 > b.l2
    \/ a.l2 = b.l2 /\ a.l1 > b.l1
    \/ a.l2 = b.l2 /\ a.l1 = b.l1 /\ a.l0 > b.l0

\* --------------------------------------------------- recommendation engine
\* A top category that takes in every label that is not a bottom.
TopTypesAny == {"shirt", "jacket", "tshirt", "hat"}

TOP_TYPES == {"shirt", "jacket", "tshirt"}
BOTTOM_TYPES == {"pants", "skirt", "shorts"}

\* _base_score_for_type: score = 1.0, then score += 1.0 for a type the
\* occasion favours.
BaseScoreForType(clothing_type, occasion) ==
    CASE occasion = "formal" /\ clothing_type \in {"shirt", "jacket", "pants"}
            -> FloatAdd(F_1_0, F_1_0)
      [] occasion = "party" /\ clothing_type \in {"jacket", "skirt"}
            -> FloatAdd(F_1_0, F_1_0)
      [] occasion = "sports" /\ clothing_type \in {"tshirt", "shorts"}
            -> FloatAdd(F_1_0, F_1_0)
      [] OTHER -> F_1_0

\* _mood_modifier
MoodModifier(mood) ==
    CASE mood = "happy" -> F_0_3
      [] mood = "tired" -> F_minus_0_1
      [] mood = "energetic" -> F_0_5
      [] OTHER -> F_0_0

\* A weather term that takes every weather but cold for hot.
WeatherModifierNotCold(weather, clothing_type) ==
    CASE weather = "cold" /\ clothing_type = "jacket" -> F_1_0
      [] weather # "cold" /\ clothing_type \in {"jacket", "pants"} -> F_minus_0_5
      [] OTHER -> F_0_0

\* _weather_modifier
WeatherModifier(weather, clothing_type) ==
    CASE weather = "cold" /\ clothing_type = "jacket" -> F_1_0
      [] weather = "hot" /\ clothing_type \in {"jacket", "pants"} -> F_minus_0_5
      [] OTHER -> F_0_0

\* _recency_penalty
RecencyPenalty(usage_count) ==
    CASE usage_count = 0 -> F_0_5
      [] usage_count < 3 -> F_0_2
      [] usage_count < 10 -> F_0_0
      [] OTHER -> F_minus_0_3

\* A score that reads time_of_day: a jacket gains 1.0 at night.
ScoreItemByTime(item, mood, occasion, weather, time_of_day) ==
    FloatAdd(FloatAdd(FloatAdd(FloatAdd(BaseScoreForType(item.type, occasion),
                                        MoodModifier(mood)),
                               WeatherModifier(weather, item.type)),
                      RecencyPenalty(item.usage_count)),
             IF time_of_day = "night" /\ item.type = "jacket"
             THEN F_1_0 ELSE F_0_0)

\* _score_item: base, then += mood, += weather, += recency, in this order;
\* time_of_day is not read.
ScoreItem(item, mood, occasion, weather, time_of_day) ==
    FloatAdd(FloatAdd(FloatAdd(BaseScoreForType(item.type, occasion),
                               MoodModifier(mood)),
                      WeatherModifier(weather, item.type)),
             RecencyPenalty(item.usage_count))

\* Labels a garment row may carry: the classifier's, the other members of
\* TOP_TYPES and BOTTOM_TYPES, and one that is in neither.
GarmentTypes == TOP_TYPES \cup BOTTOM_TYPES \cup {"hat"}

\* What a client sends to /api/recommend; "neutral", "casual" and "mild" are
\* the handler's defaults and belong to none of the engine's tables.
Moods == {"happy", "tired", "energetic", "neutral"}
Occasions == {"formal", "party", "sports", "casual"}
Weathers == {"cold", "hot", "mild"}
TimesOfDay == {"day", "night"}

\* _score_item of every label, wear count and request explored, worked out
\* once.
ScoreTable ==
    [clothing_type \in GarmentTypes |-> [usage_count \in 0 .. MaxUsage |->
     [mood \in Moods |-> [occasion \in Occasions |->
      [weather \in Weathers |-> [time_of_day \in TimesOfDay |->
        ScoreItem([type |-> clothing_type, usage_count |-> usage_count],
                  mood, occasion, weather, time_of_day)]]]]]]

\* s = self._score_item(item, mood, occasion, weather, time_of_day)
ScoreOf(item, mood, occasion, weather, time_of_day) ==
    ScoreTable[item.type][item.usage_count][mood][occasion][weather][time_of_day]

\* ORDER BY slot ASC, created_ts ASC; rows equal in both fall in rowid order.
ListedBefore(a, b) ==
    \/ a.slot < b.slot
    \/ a.slot = b.slot /\ a.created_ts < b.created_ts
    \/ a.slot = b.slot /\ a.created_ts = b.created_ts /\ a.id < b.id

RECURSIVE OrderBy(_, _)
OrderBy(items, rest) ==
    IF rest = {} THEN <<>>
    ELSE LET first == CHOOSE i \in rest :
                        \A j \in rest \ {i} : ListedBefore(items[i], items[j])
         IN <<items[first]>> \o OrderBy(items, rest \ {first})

\* A listing that leaves out the rows not touched at the present instant.
ListClothesRecent(items) ==
    OrderBy(items, {i \in DOMAIN items : items[i].updated_ts = clock})

\* list_clothes
ListClothes(items) == OrderBy(items, DOMAIN items)

\* best is None or s > best[0]
Beats(s, best) == best = <<>> \/ FloatGreater(s, best[1].score)

\* The loop of recommend_outfit over the listed items for one category:
\* <<>> for None, else the (score, item) pair kept.
RECURSIVE BestOf(_, _, _, _, _, _, _)
BestOf(listed, i, types, mood, occasion, weather, time_of_day) ==
    IF i = 0 THEN <<>>
    ELSE LET best == BestOf(listed, i - 1, types, mood, occasion, weather,
                            time_of_day)
             s == ScoreOf(listed[i], mood, occasion, weather, time_of_day)
         IN IF listed[i].type \in types /\ Beats(s, best)
            THEN <<[score |-> s, item |-> listed[i]]>>
            ELSE best

\* recommend_outfit over the table as it stands: <<>> for None.
RecommendOutfit(items, mood, occasion, weather, time_of_day) ==
    LET listed == ListClothes(items)
        best_top == BestOf(listed, Len(listed), TOP_TYPES, mood, occasion,
                           weather, time_of_day)
        best_bottom == BestOf(listed, Len(listed), BOTTOM_TYPES, mood,
                              occasion, weather, time_of_day)
    IN IF listed = <<>> \/ best_top = <<>> \/ best_bottom = <<>> THEN <<>>
       ELSE <<[top |-> best_top[1].item, bottom |-> best_bottom[1].item]>>

\* ------------------------------------------------------------------ state
Threads == 1 .. MaxThreads

InitThreads ==
    /\ pc = [t \in Threads |-> "idle"]
    /\ loc = [t \in Threads |-> NoCall]

\* A controller as constructed by create_app, over an empty database.
InitRotate ==
    /\ slots \in 1 .. MaxSlots
    /\ steps_per_revolution \in 0 .. MaxStepsPerRev
    /\ real \in BOOLEAN
    /\ current_slot = 0
    /\ enable_pin = "HIGH"
    /\ clothing_items = <<>>
    /\ usage_history = <<>>
    /\ clock = 1
    /\ last = NoCall
    /\ InitThreads

\* One call of rotate_to_slot, run to its end.
RotateToSlot ==
    \E target_slot \in -1 .. slots :
      \E fk \in Faults(real, current_slot, slots, steps_per_revolution, target_slot) :
        LET res == Rotate(real, current_slot, enable_pin, slots,
                          steps_per_revolution, target_slot, fk[1], fk[2])
        IN /\ current_slot' = res.current_slot
           /\ enable_pin' = res.enable_pin
           /\ last' = [op |-> "rotate_to_slot", raised |-> res.raised,
                       from |-> res.from, target |-> res.target,
                       steps |-> res.steps, direction_cw |-> res.direction_cw,
                       pulses |-> res.pulses]
           /\ UNCHANGED <<configVars, dbVars, clock, threadVars>>

NextRotate == RotateToSlot

SpecRotate == InitRotate /\ [][NextRotate]_vars

\* The pulses of a call: those the real controller emitted, those the mock
\* logged in their place.
Emitted(isReal, res) == IF isReal THEN res.pulses ELSE res.steps

\* Clockwise minus counter-clockwise pulses after a call, net before it.
NetAfter(net, isReal, res) ==
    IF res.direction_cw THEN net + Emitted(isReal, res)
    ELSE net - Emitted(isReal, res)

\* What is known of the calls before a call: how many there were, their net
\* pulses, whether a GPIO call failed in one of them, and where a controller
\* of the other class, given the same calls, stands.
Traced(l) ==
    IF l.op = "rotate_to_slot" THEN l
    ELSE [calls |-> 0, net |-> 0, faulted |-> FALSE,
          twin |-> [current_slot |-> 0]]

\* One call of rotate_to_slot, run to its end, with the same call made on a
\* controller of the other class that meets no GPIO fault.
RotateToSlotTraced ==
    \E prev \in {Traced(last)} :
    \E target_slot \in -1 .. slots :
    \E fk \in Faults(real, current_slot, slots, steps_per_revolution,
                     target_slot) :
    \E res \in {Rotate(real, current_slot, enable_pin, slots,
                       steps_per_revolution, target_slot, fk[1], fk[2])} :
    \E twin \in {Rotate(~real, prev.twin.current_slot, "HIGH", slots,
                        steps_per_revolution, target_slot, "none", 0)} :
        /\ prev.calls < MaxCalls
        /\ current_slot' = res.current_slot
        /\ enable_pin' = res.enable_pin
        /\ last' = [op |-> "rotate_to_slot", raised |-> res.raised,
                    from |-> res.from, target |-> res.target,
                    steps |-> res.steps, direction_cw |-> res.direction_cw,
                    pulses |-> res.pulses,
                    calls |-> prev.calls + 1,
                    net |-> NetAfter(prev.net, real, res),
                    faulted |-> prev.faulted \/ res.raised = "RuntimeError",
                    twin |-> [raised |-> twin.raised, from |-> twin.from,
                              target |-> twin.target, steps |-> twin.steps,
                              direction_cw |-> twin.direction_cw,
                              current_slot |-> twin.current_slot]]
        /\ UNCHANGED <<configVars, dbVars, clock, threadVars>>

NextTraced == RotateToSlotTraced

SpecTraced == InitRotate /\ [][NextTraced]_vars

\* An application as create_app builds it, over an empty database.
Init ==
    /\ InitRotate
    /\ slots = StoreSlots
    /\ steps_per_revolution = StoreStepsPerRev

\* Time passes.
Tick ==
    /\ clock < MaxClock
    /\ clock' = clock + 1
    /\ UNCHANGED <<configVars, motorVars, dbVars, last, threadVars>>

\* repository.add_or_update_item(slot, clothing_type), run to its end.
AddOrUpdateItem ==
    \E slot \in 0 .. slots - 1, clothing_type \in Types :
        LET res == AddOrUpdate(clothing_items, slot, clothing_type, clock)
        IN /\ clothing_items' = res.items
           /\ last' = [op |-> "add_or_update_item", slot |-> slot,
                       clothing_type |-> clothing_type, row |-> Kept(res.row),
                       returned |-> res.returned]
           /\ UNCHANGED <<configVars, motorVars, usage_history, clock,
                          threadVars>>

\* repository.log_usage(item_id), run to its end; item_id may be unknown.
LogUsage ==
    /\ Len(usage_history) < MaxHistory
    /\ \E item_id \in 1 .. Len(clothing_items) + 1 :
        LET res == LogUsageResult(clothing_items, usage_history, item_id, clock)
        IN /\ clothing_items' = res.items
           /\ usage_history' = res.history
           /\ last' = [op |-> "log_usage", item_id |-> item_id,
                       raised |-> res.raised]
           /\ UNCHANGED <<configVars, motorVars, clock, threadVars>>

\* A refusal that first turns the carousel back to the home slot.
ApiConfirmRefusedHoming ==
    \E accepted, has_top, has_bottom \in BOOLEAN :
        /\ ~accepted \/ ~has_top \/ ~has_bottom
        /\ current_slot' = 0
        /\ last' = [op |-> "confirm", accepted |-> accepted,
                    status |-> IF ~accepted THEN "rejected" ELSE "error",
                    code |-> IF ~accepted THEN 200 ELSE 400,
                    raised |-> "none", rotations |-> <<>>, logged |-> <<>>,
                    has_top |-> has_top, has_bottom |-> has_bottom]
        /\ UNCHANGED <<configVars, enable_pin, dbVars, clock, threadVars>>

\* POST /api/confirm answered without entering the loop: not accepted, or
\* accepted with the top or the bottom missing.
ApiConfirmRefused ==
    \E accepted, has_top, has_bottom \in BOOLEAN :
        /\ ~accepted \/ ~has_top \/ ~has_bottom
        /\ last' = [op |-> "confirm", accepted |-> accepted,
                    status |-> IF ~accepted THEN "rejected" ELSE "error",
                    code |-> IF ~accepted THEN 200 ELSE 400,
                    raised |-> "none", rotations |-> <<>>, logged |-> <<>>,
                    has_top |-> has_top, has_bottom |-> has_bottom]
        /\ UNCHANGED <<configVars, motorVars, dbVars, clock, threadVars>>

\* POST /api/confirm, accepted with both items: the loop over
\* (selected_top, selected_bottom), run to its end.
ApiConfirmAccepted ==
    \E selected_top \in ClientItems(slots, clothing_items) :
    \E fk1 \in Faults(real, current_slot, slots, steps_per_revolution,
                      selected_top.slot) :
    \E r1 \in {Rotate(real, current_slot, enable_pin, slots,
                      steps_per_revolution, selected_top.slot,
                      fk1[1], fk1[2])} :
    \E s1 \in {ConfirmItem(ConfirmStart(current_slot, enable_pin,
                                        clothing_items, usage_history),
                           r1, selected_top, clock)} :
    \E selected_bottom \in IF s1.raised # "none" THEN {selected_top}
                           ELSE ClientItems(slots, clothing_items) :
    \E fk2 \in IF s1.raised # "none" THEN {<<"none", 0>>}
               ELSE Faults(real, s1.current_slot, slots,
                           steps_per_revolution, selected_bottom.slot) :
    \E r2 \in {Rotate(real, s1.current_slot, s1.enable_pin, slots,
                      steps_per_revolution, selected_bottom.slot,
                      fk2[1], fk2[2])} :
    \E s2 \in {IF s1.raised # "none" THEN s1
               ELSE ConfirmItem(s1, r2, selected_bottom, clock)} :
        /\ Len(s2.history) <= MaxHistory
        /\ current_slot' = s2.current_slot
        /\ enable_pin' = s2.enable_pin
        /\ clothing_items' = s2.items
        /\ usage_history' = s2.history
        /\ last' = [op |-> "confirm", accepted |-> TRUE,
                    status |-> ConfirmStatus(s2.raised),
                    code |-> IF s2.raised = "none" THEN 200 ELSE 500,
                    raised |-> s2.raised,
                    rotations |-> s2.rotations, logged |-> s2.logged,
                    top |-> selected_top, bottom |-> selected_bottom,
                    calls |-> s2.calls,
                    has_top |-> TRUE, has_bottom |-> TRUE]
        /\ UNCHANGED <<configVars, clock, threadVars>>

\* The requests of one clock instant; SpecStore lets time pass.
Next ==
    \/ AddOrUpdateItem
    \/ LogUsage
    \/ ApiConfirmRefused
    \/ ApiConfirmAccepted

Spec == Init /\ [][Next]_vars

\* Confirmations alone: the client names the garments of the outfit itself,
\* so the endpoint runs the same over an empty inventory.
NextConfirm ==
    \/ ApiConfirmRefused
    \/ ApiConfirmAccepted

SpecConfirm == Init /\ [][NextConfirm]_vars

\* The repository alone, behind the mock controller.
InitStore == Init /\ ~real

NextStore ==
    \/ Tick
    \/ AddOrUpdateItem
    \/ LogUsage

SpecStore == InitStore /\ [][NextStore]_vars

\* ------------------------------------------------- concurrent requests
\* The server handles each request on a thread of its own; all threads share
\* the one connection (check_same_thread=False) and the one controller. A
\* thread runs one call, statement by statement, and stops at "done".
AllIdle == \A t \in Threads : pc[t] = "idle"
AllDone == \A t \in Threads : pc[t] = "done"

\* Calls made one at a time before the concurrent requests arrive.
SetupUpsert == AllIdle /\ AddOrUpdateItem
SetupLogUsage == AllIdle /\ LogUsage

\* add_or_update_item on thread t: the SELECT by slot, fetchone() and _now().
UpsertSelect(t) ==
    /\ pc[t] = "idle"
    /\ \E slot \in 0 .. slots - 1, clothing_type \in Types :
        loc' = [loc EXCEPT ![t] =
                    [op |-> "add_or_update_item", slot |-> slot,
                     clothing_type |-> clothing_type,
                     row |-> FetchBySlot(clothing_items, slot),
                     now |-> clock]]
    /\ pc' = [pc EXCEPT ![t] = "up_write"]
    /\ UNCHANGED <<configVars, motorVars, dbVars, clock, last>>

\* if row: UPDATE ... WHERE slot = ?  else: INSERT ...; then commit() and
\* item_id = row["id"] or cur.lastrowid.
UpsertWrite(t) ==
    /\ pc[t] = "up_write"
    /\ clothing_items' =
            IF loc[t].row # <<>>
            THEN UpdateType(clothing_items, loc[t].slot,
                            loc[t].clothing_type, loc[t].now)
            ELSE InsertItem(clothing_items, loc[t].slot,
                            loc[t].clothing_type, loc[t].now)
    /\ loc' = [loc EXCEPT ![t] =
                    [op |-> "add_or_update_item", slot |-> loc[t].slot,
                     clothing_type |-> loc[t].clothing_type,
                     row |-> loc[t].row,
                     item_id |-> IF loc[t].row # <<>> THEN loc[t].row[1].id
                                 ELSE Len(clothing_items) + 1]]
    /\ pc' = [pc EXCEPT ![t] = "up_get"]
    /\ UNCHANGED <<configVars, motorVars, usage_history, clock, last>>

\* return self.get_item(item_id)
UpsertReturn(t) ==
    /\ pc[t] = "up_get"
    /\ loc' = [loc EXCEPT ![t] =
                    [op |-> "add_or_update_item", slot |-> loc[t].slot,
                     clothing_type |-> loc[t].clothing_type,
                     row |-> Kept(loc[t].row),
                     returned |-> GetItem(clothing_items, loc[t].item_id)]]
    /\ pc' = [pc EXCEPT ![t] = "done"]
    /\ UNCHANGED <<configVars, motorVars, dbVars, clock, last>>

\* The usage_count and the usage events of item_id as a caller reads them.
UsageOf(items, history, item_id) ==
    [usage_count |-> IF item_id \in DOMAIN items
                     THEN items[item_id].usage_count ELSE 0,
     events |-> Cardinality({h \in DOMAIN history :
                                history[h].clothing_id = item_id})]

\* log_usage on thread t: _now() and the INSERT INTO usage_history. before is
\* what the caller could read of item_id when it made the call.
LogInsert(t) ==
    /\ pc[t] = "idle"
    /\ \E item_id \in 1 .. Len(clothing_items) + 1 :
        /\ usage_history' = InsertUsage(usage_history, item_id, clock)
        /\ loc' = [loc EXCEPT ![t] =
                    [op |-> "log_usage", item_id |-> item_id, now |-> clock,
                     before |-> UsageOf(clothing_items, usage_history, item_id)]]
    /\ pc' = [pc EXCEPT ![t] = "log_update"]
    /\ UNCHANGED <<configVars, motorVars, clothing_items, clock, last>>

\* The UPDATE of usage_count, one SQL statement, then commit() and return.
LogUpdate(t) ==
    /\ pc[t] = "log_update"
    /\ clothing_items' = UpdateUsage(clothing_items, loc[t].item_id, loc[t].now)
    /\ pc' = [pc EXCEPT ![t] = "done"]
    /\ UNCHANGED <<configVars, motorVars, usage_history, clock, last, loc>>

NextStoreConc ==
    \/ SetupUpsert
    \/ SetupLogUsage
    \/ \E t \in Threads : UpsertSelect(t)
    \/ \E t \in Threads : UpsertWrite(t)
    \/ \E t \in Threads : UpsertReturn(t)
    \/ \E t \in Threads : LogInsert(t)
    \/ \E t \in Threads : LogUpdate(t)

SpecStoreConc == InitStore /\ [][NextStoreConc]_vars

\* Confirmations on the real controller, a thread each, with no GPIO fault.
InitMotion == Init /\ real

\* api_confirm on thread t, accepted with both items: the loop is entered.
ConfirmEnter(t) ==
    /\ pc[t] = "idle"
    /\ \E selected_top, selected_bottom \in ClientItems(slots, clothing_items) :
        loc' = [loc EXCEPT ![t] =
                    [op |-> "confirm", items |-> <<selected_top, selected_bottom>>,
                     i |-> 1, from |-> 0, steps |-> 0, direction_cw |-> TRUE,
                     emitted |-> 0, status |-> "none"]]
    /\ pc' = [pc EXCEPT ![t] = "rotate"]
    /\ UNCHANGED <<configVars, motorVars, dbVars, clock, last>>

\* rotate_to_slot up to the call of _perform_steps: the range check, whose
\* ValueError the handler answers with status error, then delta, direction
\* and steps from the current_slot read now.
ConfirmCompute(t) ==
    /\ pc[t] = "rotate"
    /\ LET target_slot == loc[t].items[loc[t].i].slot
           delta == Delta(target_slot, current_slot, slots)
       IN IF ~ValidSlot(target_slot, slots)
          THEN /\ loc' = [loc EXCEPT ![t].status = ConfirmStatus("ValueError")]
               /\ pc' = [pc EXCEPT ![t] = "done"]
          ELSE /\ loc' = [loc EXCEPT
                            ![t].from = current_slot,
                            ![t].steps = StepCount(delta, slots,
                                StepsPerSlot(steps_per_revolution, slots)),
                            ![t].direction_cw = ~CounterClockwise(delta, slots),
                            ![t].emitted = 0]
               /\ pc' = [pc EXCEPT ![t] = "enable"]
    /\ UNCHANGED <<configVars, motorVars, dbVars, clock, last>>

\* _perform_steps: the DIR write and _enable().
ConfirmEnable(t) ==
    /\ pc[t] = "enable"
    /\ enable_pin' = "LOW"
    /\ pc' = [pc EXCEPT ![t] = "pulse"]
    /\ UNCHANGED <<configVars, current_slot, dbVars, clock, last, loc>>

\* One pass of the pulse loop: STEP high, sleep, STEP low, sleep.
ConfirmPulse(t) ==
    /\ pc[t] = "pulse"
    /\ loc[t].emitted < loc[t].steps
    /\ loc' = [loc EXCEPT ![t].emitted = @ + 1]
    /\ UNCHANGED <<configVars, motorVars, dbVars, clock, last, pc>>

\* The loop is over: _disable().
ConfirmDisable(t) ==
    /\ pc[t] = "pulse"
    /\ loc[t].emitted = loc[t].steps
    /\ enable_pin' = "HIGH"
    /\ pc' = [pc EXCEPT ![t] = "set"]
    /\ UNCHANGED <<configVars, current_slot, dbVars, clock, last, loc>>

\* self.current_slot = target_slot
ConfirmSetSlot(t) ==
    /\ pc[t] = "set"
    /\ current_slot' = loc[t].items[loc[t].i].slot
    /\ pc' = [pc EXCEPT ![t] = "log"]
    /\ UNCHANGED <<configVars, enable_pin, dbVars, clock, last, loc>>

\* log_usage(item_id=item["id"]), then the next item or the ok answer.
ConfirmLog(t) ==
    /\ pc[t] = "log"
    /\ \E lg \in {LogUsageResult(clothing_items, usage_history,
                                 loc[t].items[loc[t].i].id, clock)} :
        /\ clothing_items' = lg.items
        /\ usage_history' = lg.history
        /\ IF loc[t].i = 1
           THEN /\ loc' = [loc EXCEPT ![t].i = 2]
                /\ pc' = [pc EXCEPT ![t] = "rotate"]
           ELSE /\ loc' = [loc EXCEPT ![t].status = ConfirmStatus(lg.raised)]
                /\ pc' = [pc EXCEPT ![t] = "done"]
    /\ UNCHANGED <<configVars, motorVars, clock, last>>

NextMotion ==
    \/ \E t \in Threads : ConfirmEnter(t)
    \/ \E t \in Threads : ConfirmCompute(t)
    \/ \E t \in Threads : ConfirmEnable(t)
    \/ \E t \in Threads : ConfirmPulse(t)
    \/ \E t \in Threads : ConfirmDisable(t)
    \/ \E t \in Threads : ConfirmSetSlot(t)
    \/ \E t \in Threads : ConfirmLog(t)

SpecMotion == InitMotion /\ [][NextMotion]_vars

\* -------------------------------------------------------- recommendations
\* The clothing_items table after the slots of order were upserted in that
\* order at instant 1, slot s with type types[s], and worn worn[s] times.
TableOf(order, types, worn) ==
    [i \in 1 .. Len(order) |->
        [id |-> i, slot |-> order[i], type |-> types[order[i]],
         color_hint |-> NULL,
         last_worn_ts |-> IF worn[order[i]] > 0 THEN 1 ELSE NULL,
         usage_count |-> worn[order[i]],
         created_ts |-> 1, updated_ts |-> 1]]

\* The usage_history rows log_usage wrote for the first i rows of items.
RECURSIVE WornLog(_, _)
WornLog(items, i) ==
    IF i = 0 THEN <<>>
    ELSE WornLog(items, i - 1)
         \o [k \in 1 .. items[i].usage_count |-> items[i].id]

HistoryOf(items) ==
    LET log == WornLog(items, Len(items))
    IN [h \in DOMAIN log |-> [id |-> h, clothing_id |-> log[h], worn_ts |-> 1]]

\* The slots of a set in ascending and in descending order.
RECURSIVE Ascending(_)
Ascending(set) ==
    IF set = {} THEN <<>>
    ELSE LET least == CHOOSE s \in set : \A u \in set : s <= u
         IN <<least>> \o Ascending(set \ {least})

RECURSIVE Descending(_)
Descending(set) ==
    IF set = {} THEN <<>>
    ELSE LET most == CHOOSE s \in set : \A u \in set : s >= u
         IN <<most>> \o Descending(set \ {most})

\* Labels and wear counts of the inventories recommendations are explored
\* over: two tops, a bottom and a label of neither set; never worn, and worn
\* three times.
ShelfTypes == {"jacket", "tshirt", "pants", "hat"}
WornCounts == {0, 3}

\* Insertion orders of the garments of a carousel of n slots.
Orders(n) ==
    {Ascending(set) : set \in SUBSET (0 .. n - 1)}
    \cup {Descending(set) : set \in SUBSET (0 .. n - 1)}

\* Inventories of a carousel of n slots, one garment a slot at most.
Shelves(n) ==
    {TableOf(order, types, worn) :
        order \in Orders(n),
        types \in [0 .. n - 1 -> ShelfTypes],
        worn \in [0 .. n - 1 -> WornCounts]}

\* Inventories of one garment, of any label, worn up to MaxUsage times.
SingleGarments ==
    {TableOf(<<0>>, [s \in {0} |-> clothing_type], [s \in {0} |-> worn]) :
        clothing_type \in GarmentTypes, worn \in 0 .. MaxUsage}

\* An application of n slots, on the mock controller, whose earlier scans
\* and deliveries left the inventory one of tables.
InitShelf(n, tables) ==
    /\ slots = n
    /\ steps_per_revolution = StoreStepsPerRev
    /\ real = FALSE
    /\ current_slot = 0
    /\ enable_pin = "HIGH"
    /\ clothing_items \in tables
    /\ usage_history = HistoryOf(clothing_items)
    /\ clock = 1
    /\ last = NoCall
    /\ InitThreads

\* _score_item applied to a listed item, with the four terms it adds up.
ScoreItemCall ==
    \E i \in DOMAIN clothing_items, mood \in Moods, occasion \in Occasions,
       weather \in Weathers, time_of_day \in TimesOfDay :
        \E item \in {ListClothes(clothing_items)[i]} :
            /\ last' = [op |-> "score_item", type |-> item.type,
                        usage_count |-> item.usage_count,
                        mood |-> mood, occasion |-> occasion,
                        weather |-> weather, time_of_day |-> time_of_day,
                        base |-> BaseScoreForType(item.type, occasion),
                        mood_modifier |-> MoodModifier(mood),
                        weather_modifier |-> WeatherModifier(weather, item.type),
                        recency |-> RecencyPenalty(item.usage_count),
                        score |-> ScoreItem(item, mood, occasion, weather,
                                            time_of_day),
                        raised |-> "none"]
            /\ UNCHANGED <<configVars, motorVars, dbVars, clock, threadVars>>

InitScore == InitShelf(StoreSlots, SingleGarments)

NextScore == ScoreItemCall

SpecScore == InitScore /\ [][NextScore]_vars

\* The requests recommendations are explored for.
Requests ==
    [mood : {"happy"}, occasion : {"formal", "casual"},
     weather : {"cold", "hot"}, time_of_day : TimesOfDay]

\* POST /api/recommend: recommend_outfit, then the answer: no_recommendation
\* for None, else ok with the pair; both with code 200.
ApiRecommend ==
    \E rq \in Requests :
    \E recommendation \in {RecommendOutfit(clothing_items, rq.mood, rq.occasion,
                                           rq.weather, rq.time_of_day)} :
        /\ last' = [op |-> "recommend", mood |-> rq.mood,
                    occasion |-> rq.occasion, weather |-> rq.weather,
                    time_of_day |-> rq.time_of_day,
                    recommendation |-> recommendation,
                    status |-> IF recommendation = <<>>
                               THEN "no_recommendation" ELSE "ok",
                    code |-> 200, raised |-> "none"]
        /\ UNCHANGED <<configVars, motorVars, dbVars, clock, threadVars>>

InitRecommend == InitShelf(RecommendSlots, Shelves(RecommendSlots))

NextRecommend ==
    \/ Tick
    \/ ApiRecommend

SpecRecommend == InitRecommend /\ [][NextRecommend]_vars

\* ----------------------------------------------------------- deliveries
\* The inventories a scan leaves when the detector reported the slots of a
\* set, a top in slot 0 and bottoms elsewhere, nothing worn yet.
Scanned(n) ==
    {TableOf(Ascending(set),
             [s \in 0 .. n - 1 |-> IF s = 0 THEN "shirt" ELSE "pants"],
             [s \in 0 .. n - 1 |-> 0]) : set \in SUBSET (0 .. n - 1)}

\* An application as create_app builds it, over a scanned inventory.
InitDeliver ==
    /\ slots = StoreSlots
    /\ steps_per_revolution = StoreStepsPerRev
    /\ real \in BOOLEAN
    /\ current_slot = 0
    /\ enable_pin = "HIGH"
    /\ clothing_items \in Scanned(StoreSlots)
    /\ usage_history = <<>>
    /\ clock = 1
    /\ last = NoCall
    /\ InitThreads

\* Confirmations over a scanned inventory.
SpecDeliver == InitDeliver /\ [][NextConfirm]_vars

\* ---------------------------------------------------------------- scans
\* What scan_carousel may return for a carousel of n slots: a label for each
\* slot of a set.
Detections(n) == UNION {[set -> Types] : set \in SUBSET (0 .. n - 1)}

\* The orders a mapping over the slots of a set can be iterated in.
Perms(set) ==
    {order \in [1 .. Cardinality(set) -> set] :
        \A i, j \in 1 .. Cardinality(set) : order[i] = order[j] => i = j}

\* The loop of api_scan over detections.items(), taken in the given order:
\* add_or_update_item(slot, clothing_type) for each entry.
RECURSIVE ScanEntries(_, _, _, _)
ScanEntries(items, order, detections, now) ==
    IF order = <<>> THEN items
    ELSE ScanEntries(AddOrUpdate(items, order[1], detections[order[1]],
                                 now).items,
                     Tail(order), detections, now)

\* POST /api/scan once the detector has answered, run to its end.
ApiScan ==
    \E detections \in Detections(slots) :
    \E order \in Perms(DOMAIN detections) :
        /\ clothing_items' = ScanEntries(clothing_items, order, detections,
                                         clock)
        /\ last' = [op |-> "scan", detections |-> detections,
                    order |-> order, before |-> clothing_items,
                    now |-> clock, status |-> "ok", code |-> 200,
                    raised |-> "none"]
        /\ UNCHANGED <<configVars, motorVars, usage_history, clock,
                       threadVars>>

\* The inventories an earlier scan and at most one delivery left: a garment
\* in each slot of a set, the one in slot w worn once.
ScannedWorn(n) ==
    {TableOf(Ascending(set),
             [s \in 0 .. n - 1 |-> IF s = 0 THEN "shirt" ELSE "pants"],
             [s \in 0 .. n - 1 |-> IF s = w THEN 1 ELSE 0]) :
        set \in SUBSET (0 .. n - 1), w \in -1 .. n - 1}

\* Scans over an inventory that earlier scans and deliveries left.
InitScan == InitShelf(RecommendSlots, ScannedWorn(RecommendSlots))

NextScan == ApiScan

SpecScan == InitScan /\ [][NextScan]_vars

\* -------------------------------------------------------- whole closet
\* GET /api/items: list_clothes, answered with status ok.
ApiItems ==
    /\ last' = [op |-> "list_clothes", items |-> ListClothes(clothing_items),
                status |-> "ok", code |-> 200, raised |-> "none"]
    /\ UNCHANGED <<configVars, motorVars, dbVars, clock, threadVars>>

\* Every operation that reaches the controller or the repository, over the
\* application create_app builds.
NextCloset ==
    \/ RotateToSlot
    \/ AddOrUpdateItem
    \/ LogUsage
    \/ ApiItems
    \/ ApiRecommend
    \/ ApiConfirmRefused
    \/ ApiConfirmAccepted

SpecCloset == Init /\ [][NextCloset]_vars

\* ------------------------------------------------------------ claims
Min(a, b) == IF a < b THEN a ELSE b
CeilHalf(n) == (n + 1) \div 2
IsRotation == last.op = "rotate_to_slot"

\* C1: a rotation between valid slots computes min(d, n - d) * (r div n)
\* steps, d = (target - current) mod n, at most (r div n) * ceil(n / 2); the
\* real controller emits exactly that many pulses when no GPIO call fails.
C1_ShortestRotation ==
    (IsRotation /\ ValidSlot(last.target, slots)) =>
        LET d == (last.target - last.from) % slots
            sps == steps_per_revolution \div slots
        IN /\ last.steps = Min(d, slots - d) * sps
           /\ last.steps <= sps * CeilHalf(slots)
           /\ (real /\ last.raised = "none" => last.pulses = last.steps)

\* A counter-clockwise rotation of the real controller with a remainder in
\* steps_per_revolution / slots.
C1_Witness ==
    /\ IsRotation /\ real /\ last.raised = "none"
    /\ ~last.direction_cw /\ last.pulses > 0
    /\ steps_per_revolution % slots # 0

\* C3: a target outside [0, slots) raises ValueError, emits no pulse and
\* leaves current_slot as it was.
C3_InvalidSlotRejected ==
    (IsRotation /\ ~(0 <= last.target /\ last.target < slots)) =>
        /\ last.raised = "ValueError"
        /\ last.pulses = 0
        /\ current_slot = last.from

\* target_slot = slots rejected away from the home slot.
C3_Witness ==
    /\ IsRotation /\ last.target = slots /\ last.raised = "ValueError"
    /\ current_slot # 0

\* A negative target rejected on the real controller after a fault left the
\* driver enabled.
C3_WitnessNegative ==
    /\ IsRotation /\ last.target < 0 /\ last.raised = "ValueError"
    /\ real /\ enable_pin = "LOW"

IsConfirm == last.op = "confirm"
IsUpsert == last.op = "add_or_update_item"
IsLogUsage == last.op = "log_usage"
ItemIds == {clothing_items[i].id : i \in DOMAIN clothing_items}
RowsAtSlot(slot) == {i \in DOMAIN clothing_items : clothing_items[i].slot = slot}
EventsOf(item_id) ==
    {h \in DOMAIN usage_history : usage_history[h].clothing_id = item_id}
FailedRotation == last.rotations[Len(last.rotations)]

\* C2: when the stepping routine raises inside a confirmation's rotation,
\* current_slot is what it was when that rotate_to_slot call began and the
\* confirmation answers status error, never ok.
C2_FaultKeepsSlotAndErrors ==
    (IsConfirm /\ last.raised = "RuntimeError") =>
        /\ current_slot = FailedRotation.from
        /\ last.status = "error"
        /\ last.code = 500

\* The second rotation of a confirmation failed after a pulse was emitted,
\* on the way to another slot.
C2_Witness ==
    /\ IsConfirm /\ last.raised = "RuntimeError"
    /\ Len(last.rotations) = 2
    /\ FailedRotation.pulses > 0
    /\ FailedRotation.target # FailedRotation.from

\* C5: log_usage with an id no garment row has fails with an error and adds
\* no usage event (the garment rows have nothing to change).
C5_UnknownIdRejected ==
    (IsLogUsage /\ last.item_id \notin ItemIds) =>
        /\ last.raised # "none"
        /\ EventsOf(last.item_id) = {}

\* C6: every usage event references a garment row, and each row's
\* usage_count is the number of usage events referencing it.
C6_UsageMatchesEvents ==
    /\ \A h \in DOMAIN usage_history : usage_history[h].clothing_id \in ItemIds
    /\ \A i \in DOMAIN clothing_items :
        clothing_items[i].usage_count = Cardinality(EventsOf(clothing_items[i].id))

\* C7: with calls run one at a time, no two garment rows share a slot, a slot
\* just upserted has exactly one row, and a row never goes away or moves to
\* another slot, so every slot ever upserted keeps exactly one row.
C7_OneRowPerSlot ==
    /\ [](/\ \A i, j \in DOMAIN clothing_items :
              clothing_items[i].slot = clothing_items[j].slot => i = j
          /\ (IsUpsert => Cardinality(RowsAtSlot(last.slot)) = 1))
    /\ [][\A i \in DOMAIN clothing_items :
            /\ i \in DOMAIN clothing_items'
            /\ clothing_items'[i].slot = clothing_items[i].slot]_vars

\* Both slots hold a row, one of them upserted again after being worn.
C7_Witness ==
    /\ IsUpsert /\ last.row # <<>>
    /\ Len(clothing_items) = StoreSlots
    /\ usage_history # <<>>

\* C10: an upsert on an occupied slot returns the row with the id,
\* usage_count and last_worn_ts the lookup found and the new type; on an empty
\* slot it returns a new row with usage_count 0 and last_worn_ts NULL; the row
\* returned is the one row the table now holds for the slot.
C10_UpsertKeepsUsage ==
    IsUpsert =>
        /\ last.returned # <<>>
        /\ last.returned[1].slot = last.slot
        /\ last.returned[1].type = last.clothing_type
        /\ RowsAtSlot(last.slot) = {last.returned[1].id}
        /\ clothing_items[last.returned[1].id] = last.returned[1]
        /\ IF last.row # <<>>
           THEN /\ last.returned[1].id = last.row[1].id
                /\ last.returned[1].usage_count = last.row[1].usage_count
                /\ last.returned[1].last_worn_ts = last.row[1].last_worn_ts
           ELSE /\ last.returned[1].usage_count = 0
                /\ last.returned[1].last_worn_ts = NULL

\* An upsert on a slot whose garment had been worn, at a later instant.
C10_Witness ==
    /\ IsUpsert /\ last.row # <<>>
    /\ last.returned[1].usage_count > 0
    /\ last.returned[1].last_worn_ts # NULL
    /\ last.returned[1].updated_ts > last.returned[1].last_worn_ts

\* An upsert on an empty slot while another slot holds a worn garment.
C10_WitnessNew ==
    /\ IsUpsert /\ last.row = <<>>
    /\ Len(clothing_items) = 2
    /\ clothing_items[1].usage_count > 0

UpsertsOf(slot) ==
    {t \in Threads : loc[t].op = "add_or_update_item" /\ loc[t].slot = slot}
LogsOf(item_id) ==
    {t \in Threads : loc[t].op = "log_usage" /\ loc[t].item_id = item_id}

\* C8: when all the concurrent requests were upserts of one slot and all
\* have returned, the table holds exactly one row for that slot, whose type
\* is the type one of them passed.
C8_ConcurrentUpsertOneRow ==
    \A slot \in 0 .. slots - 1 :
        (AllDone /\ UpsertsOf(slot) = Threads) =>
            /\ Cardinality(RowsAtSlot(slot)) = 1
            /\ \A i \in RowsAtSlot(slot) :
                \E t \in Threads : clothing_items[i].type = loc[t].clothing_type

\* C9: when all the concurrent requests were log_usage calls on one existing
\* id and all have returned, usage_count and the number of usage events of
\* that id have each grown by the number of calls since the first call began.
C9_ConcurrentLogUsageCounts ==
    \A item_id \in ItemIds :
        (AllDone /\ LogsOf(item_id) = Threads) =>
            \E first \in Threads :
                /\ \A t \in Threads :
                    loc[first].before.events <= loc[t].before.events
                /\ clothing_items[item_id].usage_count =
                        loc[first].before.usage_count + Cardinality(Threads)
                /\ Cardinality(EventsOf(item_id)) =
                        loc[first].before.events + Cardinality(Threads)

\* Calls on a garment worn before, one of them begun while another call's
\* event was inserted and not yet counted.
C9_Witness ==
    /\ AllDone
    /\ \E item_id \in ItemIds :
        /\ LogsOf(item_id) = Threads
        /\ \E t \in Threads : loc[t].before.usage_count > 0
        /\ \E t \in Threads : loc[t].before.events > loc[t].before.usage_count

\* Thread t is inside the pulse loop of a rotation that has pulses to emit.
InPulseTrain(t) ==
    /\ pc[t] = "pulse"
    /\ loc[t].steps > 0

\* C4: no two confirmations are in the pulse-emission phase of their
\* rotations at once.
C4_NoOverlappingPulses ==
    \A t, u \in Threads : t # u => ~(InPulseTrain(t) /\ InPulseTrain(u))

\* C11: a log_usage call on an existing id appends exactly one usage event,
\* for that id and stamped with the call's timestamp; it adds 1 to the row's
\* usage_count and sets its last_worn_ts and updated_ts to that timestamp,
\* which is not before the updated_ts the row had; the row's other columns
\* and every other row stay as they were.
C11_LogUsageCountsOnce ==
    [][(usage_history' # usage_history /\ last'.item_id \in ItemIds) =>
        /\ last'.op = "log_usage"
        /\ usage_history' =
                Append(usage_history,
                       [id |-> Len(usage_history) + 1,
                        clothing_id |-> last'.item_id, worn_ts |-> clock])
        /\ DOMAIN clothing_items' = DOMAIN clothing_items
        /\ \A i \in DOMAIN clothing_items :
            IF clothing_items[i].id = last'.item_id
            THEN /\ clothing_items'[i] =
                        [clothing_items[i] EXCEPT
                            !.usage_count = clothing_items[i].usage_count + 1,
                            !.last_worn_ts = clock, !.updated_ts = clock]
                 /\ clock >= clothing_items[i].updated_ts
            ELSE clothing_items'[i] = clothing_items[i]]_vars

\* The second wearing of a garment, logged at a later instant than its row
\* was created, while the other slot holds a garment never worn.
C11_Witness ==
    /\ IsLogUsage /\ last.item_id \in ItemIds
    /\ Len(clothing_items) = 2
    /\ clothing_items[last.item_id].usage_count = 2
    /\ clothing_items[last.item_id].last_worn_ts = clock
    /\ clothing_items[last.item_id].created_ts < clock
    /\ \E i \in DOMAIN clothing_items : clothing_items[i].usage_count = 0

\* C12: on an application whose motor hardware is unavailable (the real
\* controller could not be constructed), an accepted confirmation that
\* reaches the rotation is answered with an error, never with status ok.
C12_UnavailableHardwareFaults ==
    (IsConfirm /\ last.accepted /\ last.rotations # <<>> /\ ~real) =>
        /\ last.status = "error"
        /\ last.code # 200

\* The score tables of the recommendation contract, in tenths.
TopLabels == {"shirt", "jacket", "tshirt"}
BottomLabels == {"pants", "skirt", "shorts"}
KnownMoods == {"happy", "tired", "energetic"}
KnownOccasions == {"formal", "party", "sports"}
KnownWeathers == {"cold", "hot"}

BaseTenths(clothing_type, occasion) ==
    IF \/ occasion = "formal" /\ clothing_type \in {"shirt", "jacket", "pants"}
       \/ occasion = "party" /\ clothing_type \in {"jacket", "skirt"}
       \/ occasion = "sports" /\ clothing_type \in {"tshirt", "shorts"}
    THEN 20 ELSE 10

MoodTenths(mood) ==
    CASE mood = "happy" -> 3
      [] mood = "tired" -> -1
      [] mood = "energetic" -> 5
      [] OTHER -> 0

WeatherTenths(weather, clothing_type) ==
    CASE weather = "cold" /\ clothing_type = "jacket" -> 10
      [] weather = "hot" /\ clothing_type \in {"jacket", "pants"} -> -5
      [] OTHER -> 0

RecencyTenths(usage_count) ==
    CASE usage_count = 0 -> 5
      [] usage_count \in 1 .. 2 -> 2
      [] usage_count \in 3 .. 9 -> 0
      [] OTHER -> -3

ScoreTenths(clothing_type, usage_count, mood, occasion, weather) ==
    BaseTenths(clothing_type, occasion) + MoodTenths(mood)
    + WeatherTenths(weather, clothing_type) + RecencyTenths(usage_count)

\* The float nearest to tenths / 10: what Python reads the decimal as.
FloatOfTenths(tenths) ==
    LET m == IF tenths < 0 THEN -tenths ELSE tenths
        q2 == (m * 65536) \div 10
        r2 == (m * 65536) % 10
        q1 == (r2 * Limb) \div 10
        r1 == (r2 * Limb) % 10
        q0 == (r1 * Limb) \div 10
        r0 == (r1 * Limb) % 10
        r == RoundNearestEven(q2, q1, q0, r0, 10)
    IN Float(tenths < 0, r.l2, r.l1, r.l0)

IsScore == last.op = "score_item"
IsRecommend == last.op = "recommend"
Rows == {clothing_items[i] : i \in DOMAIN clothing_items}

\* Row a comes before row b in the listing order: slot, then created_ts.
ComesFirst(a, b) ==
    \/ a.slot < b.slot
    \/ a.slot = b.slot /\ a.created_ts <= b.created_ts

\* Row r is the pick of the category labels for the last request: no row of
\* the category scores higher by the tables, and those that score the same
\* come after it in the listing.
IsPick(r, labels) ==
    /\ r \in Rows /\ r.type \in labels
    /\ \A o \in Rows :
        o.type \in labels =>
            LET mine == ScoreTenths(r.type, r.usage_count, last.mood,
                                    last.occasion, last.weather)
                other == ScoreTenths(o.type, o.usage_count, last.mood,
                                     last.occasion, last.weather)
            IN other < mine \/ (other = mine /\ ComesFirst(r, o))

\* C13: a recommendation's top is the highest-scoring garment whose label is
\* a top label and its bottom the highest-scoring one whose label is a bottom
\* label; among garments sharing the highest score, the first in list order.
C13_PicksHighestFirstListed ==
    (IsRecommend /\ last.recommendation # <<>>) =>
        /\ IsPick(last.recommendation[1].top, TopLabels)
        /\ IsPick(last.recommendation[1].bottom, BottomLabels)

\* C14: a pair is returned exactly when the inventory holds a garment with a
\* top label and one with a bottom label, otherwise None, and nothing is
\* raised; the top carries a top label and the bottom a bottom label, so they
\* are two different rows of the inventory.
C14_PairIffBothCategories ==
    IsRecommend =>
        /\ last.raised = "none"
        /\ last.recommendation # <<>> <=>
                /\ \E r \in Rows : r.type \in TopLabels
                /\ \E r \in Rows : r.type \in BottomLabels
        /\ last.recommendation = <<>> => last.status = "no_recommendation"
        /\ last.recommendation # <<>> =>
                /\ last.status = "ok"
                /\ last.recommendation[1].top \in Rows
                /\ last.recommendation[1].bottom \in Rows
                /\ last.recommendation[1].top.type \in TopLabels
                /\ last.recommendation[1].bottom.type \in BottomLabels
                /\ last.recommendation[1].top.id # last.recommendation[1].bottom.id

\* None for an inventory of two tops and a garment of neither category.
C14_Witness ==
    /\ IsRecommend /\ last.recommendation = <<>>
    /\ Cardinality({r \in Rows : r.type \in TopLabels}) = 2
    /\ \E r \in Rows : r.type \notin TopLabels \cup BottomLabels

\* A pair returned from an inventory that also holds a garment of neither
\* category, never worn, at the first slot.
C14_WitnessPair ==
    /\ IsRecommend /\ last.recommendation # <<>>
    /\ \E r \in Rows : r.type = "hat" /\ r.slot = 0 /\ r.usage_count = 0

\* C15: the score of an item is the sum of the four table entries for its
\* label, its wear count and the request, each term being its table entry:
\* as floats, the base, mood, weather and recency terms are the decimals of
\* the tables and the score is the decimal of their sum.
C15_ScoreMatchesTables ==
    IsScore =>
        /\ last.base = FloatOfTenths(BaseTenths(last.type, last.occasion))
        /\ last.mood_modifier = FloatOfTenths(MoodTenths(last.mood))
        /\ last.weather_modifier =
                FloatOfTenths(WeatherTenths(last.weather, last.type))
        /\ last.recency = FloatOfTenths(RecencyTenths(last.usage_count))
        /\ last.score =
                FloatOfTenths(ScoreTenths(last.type, last.usage_count,
                                          last.mood, last.occasion,
                                          last.weather))

\* C16: a recommendation changes no garment row, no usage event and not
\* current_slot, and what it returned is what recommend_outfit returns for
\* the same request whenever the inventory is the same, at any later time.
C16_PureAndDeterministic ==
    /\ [](IsRecommend =>
            last.recommendation =
                RecommendOutfit(clothing_items, last.mood, last.occasion,
                                last.weather, last.time_of_day))
    /\ [][last' # last =>
            /\ last'.op = "recommend"
            /\ UNCHANGED <<clothing_items, usage_history, current_slot>>]_vars

\* A pair recommended from three garments, looked at an instant later.
C16_Witness ==
    /\ IsRecommend /\ last.recommendation # <<>>
    /\ Len(clothing_items) = 3
    /\ clock > 1

\* C17: the recommendation returned is the one recommend_outfit returns for
\* every other time_of_day with the same mood, occasion and weather over the
\* same inventory, and no time_of_day makes the call raise.
C17_TimeOfDayIgnored ==
    IsRecommend =>
        /\ last.raised = "none"
        /\ \A time_of_day \in TimesOfDay :
            RecommendOutfit(clothing_items, last.mood, last.occasion,
                            last.weather, time_of_day) = last.recommendation

\* A night-time request answered with the tshirt as top although
\* a jacket is on the carousel.
C17_Witness ==
    /\ IsRecommend /\ last.time_of_day = "night"
    /\ last.recommendation # <<>>
    /\ last.recommendation[1].top.type = "tshirt"
    /\ \E r \in Rows : r.type = "jacket"

\* C18: a mood, occasion or weather the tables do not name adds nothing and
\* raises nothing: the mood term is 0.0, the base stays 1.0, the weather term
\* is 0.0, for every label; with all three unnamed the score is 1.0 plus the
\* recency term.
C18_UnknownInputsAddZero ==
    IsScore =>
        /\ last.raised = "none"
        /\ last.mood \notin KnownMoods => last.mood_modifier = FloatOfTenths(0)
        /\ last.occasion \notin KnownOccasions => last.base = FloatOfTenths(10)
        /\ last.weather \notin KnownWeathers =>
                last.weather_modifier = FloatOfTenths(0)
        /\ (/\ last.mood \notin KnownMoods
            /\ last.occasion \notin KnownOccasions
            /\ last.weather \notin KnownWeathers) =>
                last.score = FloatOfTenths(10 + RecencyTenths(last.usage_count))

\* A jacket worn ten times scored for a request of three unnamed values.
C18_Witness ==
    /\ IsScore /\ last.type = "jacket" /\ last.usage_count = 10
    /\ last.mood \notin KnownMoods
    /\ last.occasion \notin KnownOccasions
    /\ last.weather \notin KnownWeathers

\* C19: a confirmation that was accepted with a top and a bottom and whose
\* four calls all returned made them in the order rotate_to_slot(top.slot),
\* log_usage(top.id), rotate_to_slot(bottom.slot), log_usage(bottom.id);
\* after it current_slot is bottom.slot and every row's usage_count has grown
\* by 1 for each of the two records that it is: by exactly 1 for the top and
\* for the bottom when they are two records, by nothing for any other row.
C19_ConfirmRotatesThenLogs ==
    [][(/\ last'.op = "confirm" /\ last'.accepted
        /\ last'.rotations # <<>> /\ last'.raised = "none") =>
            /\ last'.status = "ok"
            /\ last'.calls = <<[op |-> "rotate_to_slot", arg |-> last'.top.slot],
                               [op |-> "log_usage", arg |-> last'.top.id],
                               [op |-> "rotate_to_slot", arg |-> last'.bottom.slot],
                               [op |-> "log_usage", arg |-> last'.bottom.id]>>
            /\ current_slot' = last'.bottom.slot
            /\ DOMAIN clothing_items' = DOMAIN clothing_items
            /\ \A i \in DOMAIN clothing_items :
                    clothing_items'[i].usage_count =
                        clothing_items[i].usage_count
                        + (IF clothing_items[i].id = last'.top.id THEN 1 ELSE 0)
                        + (IF clothing_items[i].id = last'.bottom.id THEN 1 ELSE 0)]_vars

\* A delivery of two different garments of the inventory by the real
\* controller, the carousel turning for the bottom.
C19_Witness ==
    /\ IsConfirm /\ last.accepted /\ last.status = "ok" /\ real
    /\ last.top.id # last.bottom.id
    /\ {last.top.id, last.bottom.id} \subseteq ItemIds
    /\ last.rotations[2].pulses > 0
    /\ current_slot = last.bottom.slot
    /\ \A i \in DOMAIN clothing_items : clothing_items[i].usage_count = 1

\* The target of the last rotation of a confirmation that returned, cur when
\* none did.
RECURSIVE LastReached(_, _)
LastReached(rotations, cur) ==
    IF rotations = <<>> THEN cur
    ELSE IF rotations[Len(rotations)].raised = "none"
         THEN rotations[Len(rotations)].target
         ELSE LastReached(SubSeq(rotations, 1, Len(rotations) - 1), cur)

\* C20: current_slot is always in 0 .. slots - 1; it starts at 0 and a step
\* leaves it at the target of the last rotate_to_slot that returned in that
\* step, or where it was when the step had none: an upsert, a log_usage, a
\* listing, a recommendation, a refused confirmation and a rotate_to_slot
\* that raised all leave it alone.
C20_SlotFollowsRotations ==
    /\ current_slot = 0
    /\ [](current_slot \in 0 .. slots - 1)
    /\ [][current_slot' =
            IF last'.op = "rotate_to_slot" /\ last'.raised = "none"
            THEN last'.target
            ELSE IF last'.op = "confirm"
                 THEN LastReached(last'.rotations, current_slot)
                 ELSE current_slot]_vars

\* The carousel away from slot 0 after a rotation that raised, with a
\* garment in the inventory.
C20_Witness ==
    /\ last.op = "rotate_to_slot" /\ last.raised # "none"
    /\ current_slot # 0 /\ current_slot = last.from
    /\ clothing_items # <<>>

\* The carousel away from slot 0 when a recommendation is answered.
C20_WitnessRecommend ==
    /\ last.op = "recommend" /\ last.status = "ok" /\ current_slot # 0

\* C21: rotate_to_slot(current_slot) computes zero steps, emits zero pulses
\* and leaves current_slot where it was, from any state; so a call with the
\* target of the call that has just returned emits nothing and leaves
\* current_slot at that target.
C21_RotateToCurrentIsIdle ==
    [][/\ (last'.op = "rotate_to_slot" /\ last'.target = current_slot) =>
            /\ last'.steps = 0
            /\ last'.pulses = 0
            /\ current_slot' = current_slot
       /\ (/\ last.op = "rotate_to_slot" /\ last.raised = "none"
           /\ last'.op = "rotate_to_slot" /\ last'.target = last.target) =>
            /\ last'.pulses = 0
            /\ current_slot' = last.target]_vars

\* The real controller asked again for the slot it has just turned to, away
\* from the home slot, on a carousel that needs pulses between slots.
C21_Witness ==
    /\ IsRotation /\ real /\ last.raised = "none"
    /\ last.from = last.target /\ last.target = current_slot
    /\ current_slot # 0
    /\ steps_per_revolution >= slots
    /\ last.pulses = 0

\* C23: counter-clockwise is chosen exactly when delta > slots / 2, with
\* (slots - delta) * steps_per_slot steps; at delta = slots / 2 of an even
\* carousel, and at every smaller delta, the rotation is clockwise with
\* delta * steps_per_slot steps; for odd slots the cut is at
\* delta > slots div 2.
C23_TieGoesClockwise ==
    (IsRotation /\ ValidSlot(last.target, slots)) =>
        LET delta == (last.target - last.from) % slots
            steps_per_slot == steps_per_revolution \div slots
        IN /\ last.direction_cw <=> ~(2 * delta > slots)
           /\ 2 * delta = slots =>
                /\ last.direction_cw
                /\ last.steps = delta * steps_per_slot
           /\ slots % 2 = 1 =>
                (~last.direction_cw <=> delta > slots \div 2)
           /\ last.steps = IF last.direction_cw THEN delta * steps_per_slot
                           ELSE (slots - delta) * steps_per_slot

\* A half turn of an even carousel, clockwise, with pulses on the real
\* controller.
C23_Witness ==
    /\ IsRotation /\ real /\ last.raised = "none"
    /\ 2 * ((last.target - last.from) % slots) = slots
    /\ last.direction_cw /\ last.pulses > 0

\* A counter-clockwise rotation of an odd carousel.
C23_WitnessOdd ==
    /\ IsRotation /\ last.raised = "none" /\ slots % 2 = 1
    /\ ~last.direction_cw /\ last.steps > 0

\* C26: between calls of rotate_to_slot the ENABLE line of the real
\* controller's driver is HIGH (disabled): initially, after a rotation that
\* returned and after one that failed while emitting pulses.
C26_DriverDisabledWhenIdle ==
    real => enable_pin = "HIGH"

\* C24: a confirmation that is not accepted answers rejected (code 200), an
\* accepted one without the top or without the bottom answers error (code
\* 400); neither rotates nor logs: current_slot, the ENABLE line, every
\* garment row and the usage history are what they were.
C24_RefusalChangesNothing ==
    [][(/\ last'.op = "confirm"
        /\ ~last'.accepted \/ ~last'.has_top \/ ~last'.has_bottom) =>
            /\ last'.status = IF ~last'.accepted THEN "rejected" ELSE "error"
            /\ last'.code = IF ~last'.accepted THEN 200 ELSE 400
            /\ last'.rotations = <<>> /\ last'.logged = <<>>
            /\ UNCHANGED <<current_slot, enable_pin, clothing_items,
                           usage_history>>]_vars

\* An accepted confirmation without its bottom refused after a delivery
\* moved the carousel and logged usage.
C24_Witness ==
    /\ IsConfirm /\ last.accepted /\ last.has_top /\ ~last.has_bottom
    /\ last.status = "error"
    /\ current_slot # 0 /\ usage_history # <<>>

\* A rejection after a delivery.
C24_WitnessRejected ==
    /\ IsConfirm /\ ~last.accepted /\ last.status = "rejected"
    /\ current_slot # 0 /\ usage_history # <<>>

\* How many times id occurs in the sequence ids.
RECURSIVE Occurrences(_, _)
Occurrences(ids, id) ==
    IF ids = <<>> THEN 0
    ELSE (IF ids[1] = id THEN 1 ELSE 0) + Occurrences(Tail(ids), id)

\* C25: when rotate_to_slot raises for the k-th item of an accepted
\* confirmation, log_usage was called for the k - 1 items before it and for
\* no other: the usage history grew by one event for each of those and each
\* row's usage_count by the number of them that name it; current_slot is the
\* target of the last rotation that returned (what it was before, when none
\* did) and the answer is error with code 500.
C25_NoUsageWithoutRotation ==
    [][(/\ last'.op = "confirm" /\ last'.accepted
        /\ last'.rotations # <<>> /\ last'.raised # "none") =>
            LET k == Len(last'.rotations)
            IN /\ last'.rotations[k].raised # "none"
               /\ \A j \in 1 .. k - 1 : last'.rotations[j].raised = "none"
               /\ last'.logged = IF k = 1 THEN <<>> ELSE <<last'.top.id>>
               /\ last'.status = "error" /\ last'.code = 500
               /\ current_slot' = IF k = 1 THEN current_slot
                                  ELSE last'.top.slot
               /\ Len(usage_history') = Len(usage_history) + (k - 1)
               /\ SubSeq(usage_history', 1, Len(usage_history)) = usage_history
               /\ \A h \in Len(usage_history) + 1 .. Len(usage_history') :
                    usage_history'[h].clothing_id = last'.top.id
               /\ DOMAIN clothing_items' = DOMAIN clothing_items
               /\ \A i \in DOMAIN clothing_items :
                    clothing_items'[i].usage_count =
                        clothing_items[i].usage_count
                        + Occurrences(last'.logged, clothing_items[i].id)]_vars

\* The rotation for the bottom failed on its way after the top, a garment of
\* the inventory in another slot than the home slot, was delivered and
\* logged.
C25_Witness ==
    /\ IsConfirm /\ last.accepted /\ last.raised = "RuntimeError"
    /\ Len(last.rotations) = 2
    /\ last.logged = <<last.top.id>> /\ last.top.id \in ItemIds
    /\ current_slot = last.top.slot /\ current_slot # 0
    /\ last.bottom.id \in ItemIds /\ last.bottom.id # last.top.id
    /\ usage_history # <<>>

\* The bottom names a slot the carousel does not have.
C25_WitnessInvalidSlot ==
    /\ IsConfirm /\ last.accepted /\ last.raised = "ValueError"
    /\ Len(last.rotations) = 2 /\ ~real
    /\ last.logged = <<last.top.id>>

IsScan == last.op = "scan"

\* The inventory by slot: every column of every row, the id of a row that
\* was not in the table before left out.
BySlot(items, before) ==
    {[slot |-> items[i].slot, type |-> items[i].type,
      usage_count |-> items[i].usage_count,
      last_worn_ts |-> items[i].last_worn_ts,
      created_ts |-> items[i].created_ts, updated_ts |-> items[i].updated_ts,
      id |-> IF i \in DOMAIN before THEN items[i].id ELSE 0] :
        i \in DOMAIN items}

\* C22: after the entries of a scan were upserted once each, every scanned
\* slot has one row, of the scanned type; every row there was before keeps
\* its id, slot, usage_count and last_worn_ts, and is untouched when its slot
\* was not scanned; and any other order of the entries would have left the
\* same inventory by slot.
C22_ScanOrderIndependent ==
    IsScan =>
        LET before == last.before
            scanned == DOMAIN last.detections
        IN /\ \A slot \in scanned :
                /\ Cardinality(RowsAtSlot(slot)) = 1
                /\ \A i \in RowsAtSlot(slot) :
                        clothing_items[i].type = last.detections[slot]
           /\ \A i \in DOMAIN before :
                /\ i \in DOMAIN clothing_items
                /\ clothing_items[i].id = before[i].id
                /\ clothing_items[i].slot = before[i].slot
                /\ clothing_items[i].usage_count = before[i].usage_count
                /\ clothing_items[i].last_worn_ts = before[i].last_worn_ts
                /\ before[i].slot \notin scanned =>
                        clothing_items[i] = before[i]
           /\ \A i \in DOMAIN clothing_items \ DOMAIN before :
                clothing_items[i].slot \in scanned
           /\ \A other \in Perms(scanned) :
                BySlot(ScanEntries(before, other, last.detections, last.now),
                       before)
                    = BySlot(clothing_items, before)

\* A scan of all three slots, not in slot order, over an inventory that had
\* a worn garment in one of them and no garment in two.
C22_Witness ==
    /\ IsScan /\ DOMAIN last.detections = 0 .. RecommendSlots - 1
    /\ last.order # Ascending(DOMAIN last.detections)
    /\ Len(last.before) = 1 /\ last.before[1].usage_count > 0
    /\ last.before[1].type # last.detections[last.before[1].slot]
    /\ Len(clothing_items) = RecommendSlots

\* a and b are congruent modulo m (equal when m is 0).
Congruent(a, b, m) == IF m = 0 THEN a = b ELSE (a - b) % m = 0

\* C27: after a sequence of rotate_to_slot calls from current_slot = 0 in
\* which no GPIO call failed, the clockwise minus the counter-clockwise
\* pulses are congruent to current_slot * steps_per_slot modulo
\* slots * steps_per_slot; and with steps_per_revolution >= slots a call
\* that returned emitted zero pulses only when its target was the slot the
\* controller stood at.
C27_NetPulsesTrackSlot ==
    (IsRotation /\ ~last.faulted) =>
        LET steps_per_slot == steps_per_revolution \div slots
        IN /\ Congruent(last.net, current_slot * steps_per_slot,
                        slots * steps_per_slot)
           /\ (/\ steps_per_revolution >= slots /\ last.raised = "none"
               /\ (IF real THEN last.pulses ELSE last.steps) = 0) =>
                    last.target = last.from

\* Three calls of the real controller, the last counter-clockwise, that
\* left a net count of pulses outside 0 .. slots * steps_per_slot - 1.
C27_Witness ==
    /\ IsRotation /\ ~last.faulted /\ real /\ last.calls = MaxCalls
    /\ last.raised = "none" /\ ~last.direction_cw /\ last.pulses > 0
    /\ steps_per_revolution % slots # 0
    /\ \/ last.net < 0
       \/ last.net >= slots * (steps_per_revolution \div slots)

\* C28: as long as no GPIO call failed, the real and the mock controller,
\* constructed alike and given the same calls, raise alike (nothing, or the
\* ValueError of the range check), compute the same direction and the same
\* steps, start each call from the same slot and have the same current_slot
\* after it.
C28_MockMatchesReal ==
    (IsRotation /\ ~last.faulted) =>
        /\ last.twin.raised = last.raised
        /\ last.twin.from = last.from
        /\ last.twin.steps = last.steps
        /\ last.twin.direction_cw = last.direction_cw
        /\ last.twin.current_slot = current_slot

\* The third call of the real controller, counter-clockwise with pulses,
\* the mock given the same calls standing at the same slot.
C28_Witness ==
    /\ IsRotation /\ ~last.faulted /\ real /\ last.calls = MaxCalls
    /\ last.raised = "none" /\ ~last.direction_cw /\ last.pulses > 0
    /\ last.twin.current_slot = current_slot /\ current_slot # 0

\* A call both controllers rejected, away from the home slot.
C28_WitnessRejected ==
    /\ IsRotation /\ ~last.faulted /\ last.raised = "ValueError"
    /\ last.twin.raised = "ValueError" /\ current_slot # 0
====
